---------------------------- MODULE Spec2Model ----------------------------
(***************************************************************************)
(* Model of the chess_bot engine: the UCI front-end of src/src/main.rs     *)
(* (EngineState, its go / stop / position / ucinewgame handlers, the       *)
(* search worker thread and the timer thread) and the search of            *)
(* src/src/engine.rs (Searcher::next_move, negamax, quiesce, the           *)
(* transposition table and the move ordering).                             *)
(*                                                                         *)
(* The rules provider (the shakmaty crate) is not part of the repository.  *)
(* It is represented by a finite game graph: a position is a number, and   *)
(* Game[p] gives what the engine asks the provider about p (side to move,  *)
(* check, legal moves in generation order, the result of swap_turn,        *)
(* insufficient material).  Quiet moves may form cycles, capture moves     *)
(* never do.  The static material / placement sum of evaluate is a value   *)
(* per position, drawn at Init.                                            *)
(*                                                                         *)
(* TLC integers are 32 bit wide: POSITIVE_INFINITY is 999_999_999 here in  *)
(* place of 9_999_999_999_999; every other score constant is the source's. *)
(* The order MATE_SCORE < POSITIVE_INFINITY / 2 is the same as in the      *)
(* source.  The searched_nodes counter, which only feeds the info line,    *)
(* is left out.  The process is taken to stay alive (quit is not taken).   *)
(***************************************************************************)
EXTENDS Integers, Sequences, FiniteSets, TLC

(***************************************************************************)
(* Bounds of the model.                                                    *)
(***************************************************************************)
\* deepest iteration the driver of a search-only run may start
MaxDepth == 4
\* deepest iteration the driver may start in the front-end runs
MaxUciDepth == 2
\* number of go commands the front-end accepts in the front-end runs
MaxGo == 2
\* number of negamax calls of a run of calls, and their deepest depth
MaxCalls == 2
MaxCallDepth == 4
\* the most pieces on the board of a quiesce call, and the most open calls
MaxPieces == 6
MaxQuiesceDepth == 8

(***************************************************************************)
(* Score constants.                                                        *)
(***************************************************************************)
MATE_SCORE == 100000000
POSITIVE_INFINITY == 999999999
NEGATIVE_INFINITY == -POSITIVE_INFINITY

PAWN_VALUE == 100
KNIGHT_VALUE == 320
BISHOP_VALUE == 330
ROOK_VALUE == 500
QUEEN_VALUE == 900
KING_VALUE == 20000

get_piece_base_score(role) ==
    CASE role = "Pawn" -> PAWN_VALUE
      [] role = "Knight" -> KNIGHT_VALUE
      [] role = "Bishop" -> BISHOP_VALUE
      [] role = "Rook" -> ROOK_VALUE
      [] role = "Queen" -> QUEEN_VALUE
      [] role = "King" -> KING_VALUE

(***************************************************************************)
(* The rules provider: a finite game graph.                                *)
(***************************************************************************)
NoPos == -1
NoRole == "none"

\* a Move: destination position, moving role, captured role, promotion
\* role, and whether the destination square is attacked by the opponent
Mv(to, role, cap, promo, hang) ==
    [to |-> to, role |-> role, cap |-> cap, promo |-> promo, hang |-> hang]

NoMove == Mv(NoPos, NoRole, NoRole, NoRole, FALSE)

\* what the provider answers about a position
Node(turn, check, insuff, null, moves) ==
    [turn |-> turn, check |-> check, insuff |-> insuff, null |-> null,
     moves |-> moves]

Game ==
    <<  \* position 0 (index 1 of the tuple)
        Node("White", FALSE, FALSE, 1,
             << Mv(1, "Knight", NoRole, NoRole, FALSE),
                Mv(2, "Knight", "Pawn", NoRole, TRUE),
                Mv(3, "Pawn", NoRole, NoRole, FALSE) >>),
        \* 1
        Node("Black", FALSE, FALSE, 4,
             << Mv(4, "Pawn", NoRole, NoRole, FALSE),
                Mv(5, "Bishop", "Knight", NoRole, FALSE) >>),
        \* 2
        Node("Black", FALSE, FALSE, NoPos,
             << Mv(5, "Queen", NoRole, NoRole, TRUE),
                Mv(6, "Pawn", "Knight", NoRole, FALSE) >>),
        \* 3: Black is in check
        Node("Black", TRUE, FALSE, NoPos,
             << Mv(6, "King", NoRole, NoRole, FALSE),
                Mv(4, "Rook", NoRole, NoRole, FALSE) >>),
        \* 4
        Node("White", FALSE, FALSE, 7,
             << Mv(1, "Knight", NoRole, NoRole, FALSE),
                Mv(7, "Queen", "Rook", NoRole, TRUE) >>),
        \* 5: the default position
        Node("White", FALSE, FALSE, 7,
             << Mv(7, "Rook", NoRole, NoRole, FALSE),
                Mv(8, "Queen", NoRole, NoRole, FALSE) >>),
        \* 6
        Node("White", FALSE, FALSE, 3,
             << Mv(3, "Bishop", NoRole, NoRole, FALSE),
                Mv(9, "Pawn", "Queen", "Queen", FALSE) >>),
        \* 7
        Node("Black", FALSE, FALSE, 4,
             << Mv(4, "King", NoRole, NoRole, FALSE) >>),
        \* 8: Black is checkmated
        Node("Black", TRUE, FALSE, NoPos, << >>),
        \* 9: Black is stalemated
        Node("Black", FALSE, FALSE, NoPos, << >>),
        \* 10: king against king, insufficient material, moves exist
        Node("White", FALSE, TRUE, NoPos,
             << Mv(9, "King", NoRole, NoRole, FALSE) >>),
        \* 11: five quiet moves
        Node("White", FALSE, FALSE, NoPos,
             << Mv(3, "Bishop", NoRole, NoRole, FALSE),
                Mv(9, "Queen", NoRole, NoRole, FALSE),
                Mv(1, "Knight", NoRole, NoRole, FALSE),
                Mv(2, "Rook", NoRole, NoRole, FALSE),
                Mv(7, "Pawn", NoRole, NoRole, FALSE) >>),
        \* 12: one move, to the position of the five quiet moves
        Node("Black", FALSE, FALSE, NoPos,
             << Mv(11, "Knight", NoRole, NoRole, FALSE) >>),
        \* 13: two captures, queen takes rook and pawn takes pawn
        Node("White", FALSE, FALSE, NoPos,
             << Mv(7, "Queen", "Rook", NoRole, FALSE),
                Mv(9, "Pawn", "Pawn", NoRole, FALSE) >>)
    >>

Positions == 0 .. (Len(Game) - 1)

node(p) == Game[p + 1]

\* Chess::default()
DefaultPosition == 5

turn(p) == node(p).turn
other(color) == IF color = "White" THEN "Black" ELSE "White"
legal_moves(p) == node(p).moves
checkers_any(p) == node(p).check
\* Position::is_game_over: no legal move, or insufficient material
is_game_over(p) == legal_moves(p) = << >> \/ node(p).insuff
\* Position::outcome: the winner's colour, "Draw", or "none"
outcome(p) ==
    IF legal_moves(p) = << >>
    THEN IF checkers_any(p) THEN other(turn(p)) ELSE "Draw"
    ELSE IF node(p).insuff THEN "Draw" ELSE "none"
\* Position::swap_turn: the position with the turn passed, or NoPos (Err)
swap_turn(p) == node(p).null
play_unchecked(p, m) == m.to


(***************************************************************************)
(* State.                                                                  *)
(***************************************************************************)
VARIABLES
    \* the game: the material / placement sum of evaluate, per position
    total_score,
    \* the run: deepest iteration a driver may start, go commands accepted,
    \* clock values a go command may carry
    depth_cap, go_cap, clocks,
    \* EngineState
    pos, is_thinking, thinking_thread,
    \* the arguments of the last go command, and per go the timer thread
    go_tokens, timer, target_think_time,
    \* per go, the search worker thread: where it is, its locals
    w_pc, position_to_search, depth, best_move, transposition_table,
    \* per worker, the running Searcher: its fields, the locals of next_move,
    \* the open negamax calls and the value the last finished call returned
    target_depth, last_best_move, root, stack, ret,
    \* per worker, the bestmove lines it has printed
    out,
    \* history: per worker, whether the running iteration has read the
    \* flag cleared, and the move of the last iteration that never did
    interrupted, completed_move,
    \* history: per worker, whether it has read the flag cleared
    seen_cleared,
    \* a run of negamax calls on one shared table: the table, and per call
    \* made its arguments, the entry of its position before it and its value
    call_table, call_log,
    \* a call of quiesce taken step by step: where it stands, its arguments
    \* with the number of pieces on the board, its open calls, the value
    \* the last finished call returned
    q_pc, q_root, q_stack, q_ret,
    \* a call of the evaluation functions on a board: its argument and
    \* what they returned on it and on the position with the turn passed
    ev_call

vars == << total_score, depth_cap, go_cap, clocks, pos, is_thinking, thinking_thread,
           go_tokens, timer, target_think_time, w_pc, position_to_search,
           depth, best_move, transposition_table, target_depth,
           last_best_move, root, stack, ret, out, interrupted,
           completed_move, seen_cleared, call_table, call_log,
           q_pc, q_root, q_stack, q_ret, ev_call >>

Workers == 1 .. MaxGo

(***************************************************************************)
(* Evaluation (engine.rs).                                                 *)
(***************************************************************************)
evaluate(position) ==
    IF is_game_over(position)
    THEN IF outcome(position) \in {"White", "Black"}
         THEN IF outcome(position) = turn(position)
              THEN MATE_SCORE
              ELSE -MATE_SCORE
         ELSE 0
    ELSE total_score[position]

(***************************************************************************)
(* sort_by_key: a stable sort, ascending in the key.                       *)
(***************************************************************************)
\* key gives the key of every element of s
sort_by_key(s, key) ==
    LET rank(i) == Cardinality({j \in 1 .. Len(s) :
                        \/ key[s[j]] < key[s[i]]
                        \/ key[s[j]] = key[s[i]] /\ j <= i})
    IN  [n \in 1 .. Len(s) |-> s[CHOOSE i \in 1 .. Len(s) : rank(i) = n]]

(***************************************************************************)
(* Move ordering.                                                          *)
(***************************************************************************)
\* the score of a move handed to the sort as it is, not negated
quick_score_move_for_sort_ascending(move_to_score, position, last_move) ==
    LET s1 == IF last_move # NoMove /\ move_to_score = last_move
              THEN 10000 ELSE 0
        s2 == IF move_to_score.cap # NoRole
              THEN 10 * get_piece_base_score(move_to_score.cap) ELSE 0
        s3 == IF move_to_score.promo # NoRole
              THEN get_piece_base_score(move_to_score.promo) ELSE 0
        s4 == IF move_to_score.hang
              THEN get_piece_base_score(move_to_score.role) ELSE 0
    IN  s1 + s2 + s3 - s4

quick_score_move_for_sort(move_to_score, position, last_move) ==
    LET s1 == IF last_move # NoMove /\ move_to_score = last_move
              THEN 10000 ELSE 0
        s2 == IF move_to_score.cap # NoRole
              THEN 10 * get_piece_base_score(move_to_score.cap) ELSE 0
        s3 == IF move_to_score.promo # NoRole
              THEN get_piece_base_score(move_to_score.promo) ELSE 0
        s4 == IF move_to_score.hang
              THEN get_piece_base_score(move_to_score.role) ELSE 0
    IN  -(s1 + s2 + s3 - s4)

sorted_legal_moves(position, preferred) ==
    LET moves == legal_moves(position)
        key == [m \in {moves[i] : i \in 1 .. Len(moves)} |->
                   quick_score_move_for_sort(m, position, preferred)]
    IN  sort_by_key(moves, key)

\* every legal move, capturing or not, captures ordered as quiesce orders them
capture_moves_unfiltered(position) ==
    LET moves == legal_moves(position)
        key == [m \in {moves[i] : i \in 1 .. Len(moves)} |->
                   IF m.cap = NoRole THEN 0
                   ELSE -get_piece_base_score(m.cap)
                        + get_piece_base_score(m.role)]
    IN  sort_by_key(moves, key)

\* the captures of a position, in the order quiesce examines them
capture_moves(position) ==
    LET is_capture(m) == m.cap # NoRole
        captures == SelectSeq(legal_moves(position), is_capture)
        key == [m \in {captures[i] : i \in 1 .. Len(captures)} |->
                   -get_piece_base_score(m.cap) + get_piece_base_score(m.role)]
    IN  sort_by_key(captures, key)

(***************************************************************************)
(* Quiescence search.  It reads neither the flag nor the table.            *)
(***************************************************************************)
RECURSIVE quiesce(_, _, _), quiesce_loop(_, _, _, _, _, _)

quiesce(position, alpha, beta) ==
    LET static_eval == evaluate(position)
    IN  IF static_eval >= beta
        THEN static_eval
        ELSE quiesce_loop(position, capture_moves(position), 1,
                          IF static_eval > alpha THEN static_eval ELSE alpha,
                          beta, static_eval)

quiesce_loop(position, captures, i, alpha, beta, best_value) ==
    IF i > Len(captures)
    THEN best_value
    ELSE LET score == -quiesce(play_unchecked(position, captures[i]),
                               -beta, -alpha)
         IN  IF score >= beta
             THEN score
             ELSE quiesce_loop(position, captures, i + 1,
                               IF score > alpha THEN score ELSE alpha, beta,
                               IF score > best_value THEN score
                                                     ELSE best_value)

\* the windows of the calls of quiesce that one call of quiesce makes, its
\* own first
RECURSIVE quiesce_calls(_, _, _), quiesce_loop_calls(_, _, _, _, _)

quiesce_calls(position, alpha, beta) ==
    LET static_eval == evaluate(position)
    IN  {<< alpha, beta >>} \cup
        IF static_eval >= beta
        THEN {}
        ELSE quiesce_loop_calls(position, capture_moves(position), 1,
                                IF static_eval > alpha THEN static_eval
                                                       ELSE alpha,
                                beta)

quiesce_loop_calls(position, captures, i, alpha, beta) ==
    IF i > Len(captures)
    THEN {}
    ELSE LET new_pos == play_unchecked(position, captures[i])
             score == -quiesce(new_pos, -beta, -alpha)
         IN  quiesce_calls(new_pos, -beta, -alpha) \cup
             IF score >= beta
             THEN {}
             ELSE quiesce_loop_calls(position, captures, i + 1,
                                     IF score > alpha THEN score ELSE alpha,
                                     beta)

(***************************************************************************)
(* Quiescence search, one call at a time.  A frame holds the arguments and *)
(* locals of one open call of quiesce and the number of pieces on its      *)
(* board; stage is "call" (not yet entered) or "loop" (waiting for the     *)
(* search of capture_moves[i]).                                            *)
(***************************************************************************)
\* the pieces left on the board after a move: a capture removes one
pieces_after(pieces, m) == IF m.cap # NoRole THEN pieces - 1 ELSE pieces

QuiesceFrame(position, pieces, alpha, beta) ==
    [position |-> position, pieces |-> pieces, alpha |-> alpha,
     beta |-> beta, stage |-> "call", capture_moves |-> << >>, i |-> 0,
     best_value |-> 0]

\* the call that searches capture m of the position of frame f
QuiesceChild(f, m, alpha, beta) ==
    QuiesceFrame(play_unchecked(f.position, m), pieces_after(f.pieces, m),
                 -beta, -alpha)

\* what one step of a call leaves: the frames that replace the call's own
\* frame, and the value returned (<< >> while the call stays open)
QuiesceStep(frames, value) == [frames |-> frames, ret |-> value]

\* quiesce, from its entry to its first recursive call or its return
quiesce_enter(f) ==
    LET static_eval == evaluate(f.position)
        alpha == IF static_eval > f.alpha THEN static_eval ELSE f.alpha
        captures == capture_moves(f.position)
        g == [f EXCEPT !.stage = "loop", !.alpha = alpha,
                       !.capture_moves = captures, !.i = 1,
                       !.best_value = static_eval]
    IN  IF static_eval >= f.beta
        THEN QuiesceStep(<< >>, << static_eval >>)
        ELSE IF captures = << >>
        THEN QuiesceStep(<< >>, << static_eval >>)
        ELSE QuiesceStep(<< g, QuiesceChild(f, captures[1], alpha, f.beta) >>,
                         << >>)

\* quiesce, after the search of capture_moves[i] returned v
quiesce_after_move(f, v) ==
    LET score == -v
        best_value == IF score > f.best_value THEN score ELSE f.best_value
        alpha == IF score > f.alpha THEN score ELSE f.alpha
        g == [f EXCEPT !.best_value = best_value, !.alpha = alpha,
                       !.i = f.i + 1]
    IN  IF score >= f.beta
        THEN QuiesceStep(<< >>, << score >>)
        ELSE IF f.i < Len(f.capture_moves)
        THEN QuiesceStep(<< g, QuiesceChild(f, f.capture_moves[f.i + 1],
                                            alpha, f.beta) >>,
                         << >>)
        ELSE QuiesceStep(<< >>, << best_value >>)

NoCall == [position |-> NoPos, pieces |-> 0, alpha |-> 0, beta |-> 0]

(***************************************************************************)
(* Static evaluation on boards.  A board is the set of its pieces, a       *)
(* square is 0 (a1) .. 63 (h8).  A position is a board, the side to move   *)
(* and what the provider answers to outcome() for either side to move:     *)
(* "none" (the game goes on), "Draw", the winner's colour, or "illegal"    *)
(* when that side cannot be to move on this board.                         *)
(***************************************************************************)
Piece(sq, role, color) == [sq |-> sq, role |-> role, color |-> color]

BoardPosition(board, color, white_outcome, black_outcome) ==
    [board |-> board, turn |-> color,
     outcomes |-> [White |-> white_outcome, Black |-> black_outcome]]

board_outcome(p) == p.outcomes[p.turn]
board_is_game_over(p) == board_outcome(p) # "none"
\* the position with the turn passed, where that is a legal position
flip_is_legal(p) == p.outcomes[other(p.turn)] # "illegal"
flip_turn(p) == [p EXCEPT !.turn = other(p.turn)]

file_of(square) == square % 8
rank_of(square) == square \div 8
\* square ^ 56
flip(square) == (7 - rank_of(square)) * 8 + file_of(square)
\* Square::flip_vertical
flip_vertical(square) == (7 - rank_of(square)) * 8 + file_of(square)
king_of(board, color) ==
    (CHOOSE piece \in board : piece.role = "King" /\ piece.color = color).sq

abs(n) == IF n < 0 THEN -n ELSE n
max(a, b) == IF a > b THEN a ELSE b
min(a, b) == IF a < b THEN a ELSE b
\* i64 division: the quotient is rounded towards zero
div_i64(a, b) == IF a >= 0 THEN a \div b ELSE -((-a) \div b)

\* the sum of the values of a function
RECURSIVE sum_of(_)
sum_of(f) ==
    IF DOMAIN f = {}
    THEN 0
    ELSE LET x == CHOOSE y \in DOMAIN f : TRUE
         IN  f[x] + sum_of([y \in DOMAIN f \ {x} |-> f[y]])

\* piece.role as usize
role_index(role) ==
    CASE role = "Pawn" -> 1
      [] role = "Knight" -> 2
      [] role = "Bishop" -> 3
      [] role = "Rook" -> 4
      [] role = "Queen" -> 5
      [] role = "King" -> 6

PIECE_VALUES_MG == << 82, 337, 365, 477, 1025, 0 >>

PIECE_VALUES_EG == << 94, 281, 297, 512, 936, 0 >>

MG_PAWN_TABLE ==
    <<    0,    0,    0,    0,    0,    0,    0,    0,
         98,  134,   61,   95,   68,  126,   34,  -11,
         -6,    7,   26,   31,   65,   56,   25,  -20,
        -14,   13,    6,   21,   23,   12,   17,  -23,
        -27,   -2,   -5,   12,   17,    6,   10,  -25,
        -26,   -4,   -4,  -10,    3,    3,   33,  -12,
        -35,   -1,  -20,  -23,  -15,   24,   38,  -22,
          0,    0,    0,    0,    0,    0,    0,    0 >>

EG_PAWN_TABLE ==
    <<    0,    0,    0,    0,    0,    0,    0,    0,
        178,  173,  158,  134,  147,  132,  165,  187,
         94,  100,   85,   67,   56,   53,   82,   84,
         32,   24,   13,    5,   -2,    4,   17,   17,
         13,    9,   -3,   -7,   -7,   -8,    3,   -1,
          4,    7,   -6,    1,    0,   -5,   -1,   -8,
         13,    8,    8,   10,   13,    0,    2,   -7,
          0,    0,    0,    0,    0,    0,    0,    0 >>

MG_KNIGHT_TABLE ==
    << -167,  -89,  -34,  -49,   61,  -97,  -15, -107,
        -73,  -41,   72,   36,   23,   62,    7,  -17,
        -47,   60,   37,   65,   84,  129,   73,   44,
         -9,   17,   19,   53,   37,   69,   18,   22,
        -13,    4,   16,   13,   28,   19,   21,   -8,
        -23,   -9,   12,   10,   19,   17,   25,  -16,
        -29,  -53,  -12,   -3,   -1,   18,  -14,  -19,
       -105,  -21,  -58,  -33,  -17,  -28,  -19,  -23 >>

EG_KNIGHT_TABLE ==
    <<  -58,  -38,  -13,  -28,  -31,  -27,  -63,  -99,
        -25,   -8,  -25,   -2,   -9,  -25,  -24,  -52,
        -24,  -20,   10,    9,   -1,   -9,  -19,  -41,
        -17,    3,   22,   22,   22,   11,    8,  -18,
        -18,   -6,   16,   25,   16,   17,    4,  -18,
        -23,   -3,   -1,   15,   10,   -3,  -20,  -22,
        -42,  -20,  -10,   -5,   -2,  -20,  -23,  -44,
        -29,  -51,  -23,  -15,  -22,  -18,  -50,  -64 >>

MG_BISHOP_TABLE ==
    <<  -29,    4,  -82,  -37,  -25,  -42,    7,   -8,
        -26,   16,  -18,  -13,   30,   59,   18,  -47,
        -16,   37,   43,   40,   35,   50,   37,   -2,
         -4,    5,   19,   50,   37,   37,    7,   -2,
         -6,   13,   13,   26,   34,   12,   10,    4,
          0,   15,   15,   15,   14,   27,   18,   10,
          4,   15,   16,    0,    7,   21,   33,    1,
        -33,   -3,  -14,  -21,  -13,  -12,  -39,  -21 >>

EG_BISHOP_TABLE ==
    <<  -14,  -21,  -11,   -8,   -7,   -9,  -17,  -24,
         -8,   -4,    7,  -12,   -3,  -13,   -4,  -14,
          2,   -8,    0,   -1,   -2,    6,    0,    4,
         -3,    9,   12,    9,   14,   10,    3,    2,
         -6,    3,   13,   19,    7,   10,   -3,   -9,
        -12,   -3,    8,   10,   13,    3,   -7,  -15,
        -14,  -18,   -7,   -1,    4,   -9,  -15,  -27,
        -23,   -9,  -23,   -5,   -9,  -16,   -5,  -17 >>

MG_ROOK_TABLE ==
    <<   32,   42,   32,   51,   63,    9,   31,   43,
         27,   32,   58,   62,   80,   67,   26,   44,
         -5,   19,   26,   36,   17,   45,   61,   16,
        -24,  -11,    7,   26,   24,   35,   -8,  -20,
        -36,  -26,  -12,   -1,    9,   -7,    6,  -23,
        -45,  -25,  -16,  -17,    3,    0,   -5,  -33,
        -44,  -16,  -20,   -9,   -1,   11,   -6,  -71,
        -19,  -13,    1,   17,   16,    7,  -37,  -26 >>

EG_ROOK_TABLE ==
    <<   13,   10,   18,   15,   12,   12,    8,    5,
         11,   13,   13,   11,   -3,    3,    8,    3,
          7,    7,    7,    5,    4,   -3,   -5,   -3,
          4,    3,   13,    1,    2,    1,   -1,    2,
          3,    5,    8,    4,   -5,   -6,   -8,  -11,
         -4,    0,   -5,   -1,   -7,  -12,   -8,  -16,
         -6,   -6,    0,    2,   -9,   -9,  -11,   -3,
         -9,    2,    3,   -1,   -5,  -13,    4,  -20 >>

MG_QUEEN_TABLE ==
    <<  -28,    0,   29,   12,   59,   44,   43,   45,
        -24,  -39,   -5,    1,  -16,   57,   28,   54,
        -13,  -17,    7,    8,   29,   56,   47,   57,
        -27,  -27,  -16,  -16,   -1,   17,   -2,    1,
         -9,  -26,   -9,  -10,   -2,   -4,    3,   -3,
        -14,    2,  -11,   -2,   -5,    2,   14,    5,
        -35,   -8,   11,    2,    8,   15,   -3,    1,
         -1,  -18,   -9,   10,  -15,  -25,  -31,  -50 >>

EG_QUEEN_TABLE ==
    <<   -9,   22,   22,   27,   27,   19,   10,   20,
        -17,   20,   32,   41,   58,   25,   30,    0,
        -20,    6,    9,   49,   47,   35,   19,    9,
          3,   22,   24,   45,   57,   40,   57,   36,
        -18,   28,   19,   47,   31,   34,   39,   23,
        -16,  -27,   15,    6,    9,   17,   10,    5,
        -22,  -23,  -30,  -16,  -16,  -23,  -36,  -32,
        -33,  -28,  -22,  -43,   -5,  -32,  -20,  -41 >>

MG_KING_TABLE ==
    <<  -65,   23,   16,  -15,  -56,  -34,    2,   13,
         29,   -1,  -20,   -7,   -8,   -4,  -38,  -29,
         -9,   24,    2,  -16,  -20,    6,   22,  -22,
        -17,  -20,  -12,  -27,  -30,  -25,  -14,  -36,
        -49,   -1,  -27,  -39,  -46,  -44,  -33,  -51,
        -14,  -14,  -22,  -46,  -44,  -30,  -15,  -27,
          1,    7,   -8,  -64,  -43,  -16,    9,    8,
        -15,   36,   12,  -54,    8,  -28,   24,   14 >>

EG_KING_TABLE ==
    <<  -74,  -35,  -18,  -18,  -11,   15,    4,  -17,
        -12,   17,   14,   17,   17,   38,   23,   11,
         10,   17,   23,   15,   20,   45,   44,   13,
         -8,   22,   24,   27,   26,   33,   26,    3,
        -18,   -4,   21,   24,   27,   23,    9,  -11,
        -19,   -3,   11,   21,   23,   16,    7,   -9,
        -27,  -11,    4,   13,   14,    4,   -5,  -17,
        -53,  -34,  -21,  -11,  -28,  -14,  -24,  -43 >>

MG_TABLES == << MG_PAWN_TABLE, MG_KNIGHT_TABLE, MG_BISHOP_TABLE,
                MG_ROOK_TABLE, MG_QUEEN_TABLE, MG_KING_TABLE >>
EG_TABLES == << EG_PAWN_TABLE, EG_KNIGHT_TABLE, EG_BISHOP_TABLE,
                EG_ROOK_TABLE, EG_QUEEN_TABLE, EG_KING_TABLE >>

\* mg_table()[color][role - 1][square]
mg_table(color, role, square) ==
    LET table == MG_TABLES[role_index(role)]
        value == PIECE_VALUES_MG[role_index(role)]
    IN  IF color = "White" THEN table[square + 1] + value
                           ELSE table[flip(square) + 1] + value

\* eg_table()[color][role - 1][square]
eg_table(color, role, square) ==
    LET table == EG_TABLES[role_index(role)]
        value == PIECE_VALUES_EG[role_index(role)]
    IN  IF color = "White" THEN table[square + 1] + value
                           ELSE table[flip(square) + 1] + value

get_piece_eg_increase(role) ==
    CASE role = "Pawn" -> 0
      [] role = "Knight" -> 1
      [] role = "Bishop" -> 1
      [] role = "Rook" -> 2
      [] role = "Queen" -> 4
      [] role = "King" -> 0

\* what both evaluation functions return on a game-over position
terminal_score(p) ==
    IF board_outcome(p) \in {"White", "Black"}
    THEN IF board_outcome(p) = p.turn THEN MATE_SCORE ELSE -MATE_SCORE
    ELSE 0

game_phase(board) ==
    sum_of([piece \in board |-> get_piece_eg_increase(piece.role)])

\* eval.rs: the tapered score of a board for the side to move
tapered_score(p) ==
    LET mg_evals == [c \in {"White", "Black"} |->
            sum_of([piece \in {q \in p.board : q.color = c} |->
                       mg_table(piece.color, piece.role, piece.sq)])]
        eg_evals == [c \in {"White", "Black"} |->
            sum_of([piece \in {q \in p.board : q.color = c} |->
                       eg_table(piece.color, piece.role, piece.sq)])]
        mg_score == mg_evals[p.turn] - mg_evals[other(p.turn)]
        eg_score == eg_evals[p.turn] - eg_evals[other(p.turn)]
        mg_phase == min(game_phase(p.board), 24)
        eg_phase == 24 - mg_phase
    IN  div_i64(mg_score * mg_phase + eg_score * eg_phase, 24)

\* eval.rs evaluate
eval_evaluate(p) ==
    IF board_is_game_over(p) THEN terminal_score(p) ELSE tapered_score(p)

(***************************************************************************)
(* engine.rs evaluate, the function the search calls.  Its piece-square    *)
(* tables are those of engine_hyperparams; a run takes them all zero       *)
(* ("zero") or takes the tables of eval.rs ("pesto").                      *)
(***************************************************************************)
PstChoices == {"zero", "pesto"}
ZeroTable == [i \in 1 .. 64 |-> 0]
PAWN_PST(pst) == IF pst = "zero" THEN ZeroTable ELSE MG_PAWN_TABLE
KNIGHT_PST(pst) == IF pst = "zero" THEN ZeroTable ELSE MG_KNIGHT_TABLE
BISHOP_PST(pst) == IF pst = "zero" THEN ZeroTable ELSE MG_BISHOP_TABLE
ROOK_PST(pst) == IF pst = "zero" THEN ZeroTable ELSE MG_ROOK_TABLE
QUEEN_PST(pst) == IF pst = "zero" THEN ZeroTable ELSE MG_QUEEN_TABLE
KING_MG_PST(pst) == IF pst = "zero" THEN ZeroTable ELSE MG_KING_TABLE
KING_EG_PST(pst) == IF pst = "zero" THEN ZeroTable ELSE EG_KING_TABLE

end_game_king_bonuses(p) ==
    LET player_king_square == king_of(p.board, p.turn)
        opponent_king_square == king_of(p.board, other(p.turn))
        kings_distance ==
            abs(file_of(player_king_square) - file_of(opponent_king_square))
            + abs(rank_of(player_king_square) - rank_of(opponent_king_square))
        opponent_king_center_distance ==
            max(3 - file_of(opponent_king_square),
                file_of(opponent_king_square) - 4)
            + max(3 - rank_of(opponent_king_square),
                  rank_of(opponent_king_square) - 4)
    IN  ((14 - kings_distance) + opponent_king_center_distance) * 10

\* the loop over the board: base score and table entry of every piece
material_score(p, pst) ==
    LET piece_count == Cardinality(p.board)
        piece_pos(piece) == IF piece.color = "White"
                            THEN flip_vertical(piece.sq) ELSE piece.sq
        table(piece) ==
            CASE piece.role = "Pawn" -> PAWN_PST(pst)
              [] piece.role = "Knight" -> KNIGHT_PST(pst)
              [] piece.role = "Bishop" -> BISHOP_PST(pst)
              [] piece.role = "Rook" -> ROOK_PST(pst)
              [] piece.role = "Queen" -> QUEEN_PST(pst)
              [] piece.role = "King" -> IF piece_count > 10
                                        THEN KING_MG_PST(pst)
                                        ELSE KING_EG_PST(pst)
        tmp_score(piece) == get_piece_base_score(piece.role)
                            + table(piece)[piece_pos(piece) + 1]
    IN  sum_of([piece \in p.board |->
                   tmp_score(piece)
                   * (IF piece.color = p.turn THEN 1 ELSE -1)])

\* the same, the material and placement terms added on a game-over position
engine_evaluate_terminal_plus_material(p, pst) ==
    IF board_is_game_over(p)
    THEN terminal_score(p) + material_score(p, pst)
    ELSE material_score(p, pst)
         + (IF Cardinality(p.board) <= 10 THEN end_game_king_bonuses(p)
                                          ELSE 0)

\* engine.rs evaluate
engine_evaluate(p, pst) ==
    IF board_is_game_over(p)
    THEN terminal_score(p)
    ELSE material_score(p, pst)
         + (IF Cardinality(p.board) <= 10 THEN end_game_king_bonuses(p)
                                          ELSE 0)

(***************************************************************************)
(* The boards evaluate is called on.                                       *)
(***************************************************************************)
BackRank == << "Rook", "Knight", "Bishop", "Queen", "King", "Bishop",
               "Knight", "Rook" >>

\* Chess::default()
StartBoard ==
    {Piece(f, BackRank[f + 1], "White") : f \in 0 .. 7}
    \cup {Piece(8 + f, "Pawn", "White") : f \in 0 .. 7}
    \cup {Piece(48 + f, "Pawn", "Black") : f \in 0 .. 7}
    \cup {Piece(56 + f, BackRank[f + 1], "Black") : f \in 0 .. 7}

\* 3k4/8/8/8/8/8/8/QQQKQQQQ
QueensBoard ==
    {Piece(f, IF f = 3 THEN "King" ELSE "Queen", "White") : f \in 0 .. 7}
    \cup {Piece(59, "King", "Black")}

Kings == {Piece(4, "King", "White"), Piece(60, "King", "Black")}

\* pieces on their home squares, none of which attacks a king on e1 or e8
HomePieces ==
    {Piece(0, "Rook", "White"), Piece(56, "Rook", "Black"),
     Piece(1, "Knight", "White"), Piece(57, "Knight", "Black"),
     Piece(3, "Queen", "White"), Piece(59, "Queen", "Black"),
     Piece(8, "Pawn", "White"), Piece(48, "Pawn", "Black"),
     Piece(15, "Pawn", "White"), Piece(55, "Pawn", "Black")}

\* boards with material to mate on which every side to move has a move
OpenBoards ==
    {Kings \cup S : S \in {T \in SUBSET HomePieces :
            \E piece \in T : piece.role \in {"Pawn", "Rook", "Queen"}}}
    \cup {StartBoard, QueensBoard}

\* Black to move is checkmated
MatedBoard == {Piece(63, "King", "Black"), Piece(54, "Queen", "White"),
               Piece(46, "King", "White")}
\* Black to move is stalemated, White to move plays on
StalemateBoard == {Piece(63, "King", "Black"), Piece(53, "King", "White"),
                   Piece(46, "Queen", "White")}

\* the positions evaluate is called on; the last one has the side to move
\* as decisive winner, an answer evaluate provides for
EvalPositions ==
    {BoardPosition(board, color, "none", "none") :
        board \in OpenBoards, color \in {"White", "Black"}}
    \cup {BoardPosition(MatedBoard, "Black", "illegal", "White")}
    \cup {BoardPosition(StalemateBoard, color, "none", "Draw") :
             color \in {"White", "Black"}}
    \cup {BoardPosition(Kings, color, "Draw", "Draw") :
             color \in {"White", "Black"}}
    \cup {BoardPosition(MatedBoard, "White", "White", "White")}

\* the colour mirror of a board: every piece on s XOR 56 in the other colour
mirror(board) ==
    {Piece(flip(piece.sq), piece.role, other(piece.color)) : piece \in board}

NoEval == [position |-> BoardPosition({}, "White", "none", "none"),
           pst |-> "none", engine |-> 0, engine_flipped |-> 0, eval |-> 0,
           eval_flipped |-> 0]

(***************************************************************************)
(* Transposition table.  The Zobrist key of a position is the position:    *)
(* equal positions have equal keys and collisions are not modelled.        *)
(***************************************************************************)
zobrist_hash(position) == position

NoInfo == [present |-> FALSE, depth |-> 0, value |-> 0, best_move |-> NoMove,
           transposition_type |-> "Alpha"]

EmptyTable == [h \in Positions |-> NoInfo]

\* HashProbeOption: Some(val), Move(mv) or None
ProbeSome(val) == [kind |-> "Some", val |-> val, mv |-> NoMove]
ProbeMove(mv) == [kind |-> "Move", val |-> 0, mv |-> mv]
ProbeNone == [kind |-> "None", val |-> 0, mv |-> NoMove]

\* probe_hash handing out the best move only of an entry deep enough
probe_hash_hint_deep_only(table, hash, d, alpha, beta) ==
    LET info == table[hash]
    IN  IF ~info.present \/ info.depth < d THEN ProbeNone
        ELSE IF info.transposition_type = "Exact" THEN ProbeSome(info.value)
        ELSE IF info.transposition_type = "Alpha" /\ info.value <= alpha
             THEN ProbeSome(alpha)
        ELSE IF info.transposition_type = "Beta" /\ info.value >= beta
             THEN ProbeSome(beta)
        ELSE IF info.best_move # NoMove THEN ProbeMove(info.best_move)
        ELSE ProbeNone

probe_hash(table, hash, d, alpha, beta) ==
    LET info == table[hash]
    IN  IF ~info.present THEN ProbeNone
        ELSE IF info.depth >= d /\ info.transposition_type = "Exact"
             THEN ProbeSome(info.value)
        ELSE IF /\ info.depth >= d
                /\ info.transposition_type = "Alpha"
                /\ info.value <= alpha
             THEN ProbeSome(alpha)
        ELSE IF /\ info.depth >= d
                /\ info.transposition_type = "Beta"
                /\ info.value >= beta
             THEN ProbeSome(beta)
        ELSE IF info.best_move # NoMove THEN ProbeMove(info.best_move)
        ELSE ProbeNone

record_hash(table, hash, d, value, type, mv) ==
    [table EXCEPT ![hash] = [present |-> TRUE, depth |-> d, value |-> value,
                             best_move |-> mv, transposition_type |-> type]]


(***************************************************************************)
(* The open calls of negamax.  A frame holds the arguments and locals of   *)
(* one call; stage says where the call stands: "call" (not yet entered),   *)
(* "null" (waiting for the null-move search) or "loop" (waiting for the    *)
(* search of legal_moves[i]).  alpha0 keeps the alpha the call was entered  *)
(* with (history: no step of the call reads it).                           *)
(***************************************************************************)
CallFrame(position, d, alpha, beta) ==
    [position |-> position, depth |-> d, alpha |-> alpha, beta |-> beta,
     alpha0 |-> alpha, stage |-> "call", transposition_type |-> "Alpha",
     best_cached_move |-> NoMove, legal_moves |-> << >>, i |-> 0,
     best_move |-> NoMove]

\* what one step of a call leaves: the frames that replace the call's own
\* frame, the value returned (<< >> while the call stays open), the table
Step(frames, value, table) ==
    [frames |-> frames, ret |-> value, table |-> table]

\* negamax, the horizon test
at_horizon(f, flag) ==
    f.depth = 0 \/ is_game_over(f.position) \/ ~flag

\* negamax, the test that admits the null move
null_move_allowed(f) ==
    /\ f.depth >= 3
    /\ ~checkers_any(f.position)
    /\ swap_turn(f.position) # NoPos

\* the window flipped without being swapped
child_window_unswapped(alpha, beta) == [alpha |-> -alpha, beta |-> -beta]

\* the window a move is searched with: (-beta, -alpha)
child_window(alpha, beta) == [alpha |-> -beta, beta |-> -alpha]

\* the call that searches move m of a position
ChildCall(position, m, d, alpha, beta) ==
    CallFrame(play_unchecked(position, m), d,
              child_window(alpha, beta).alpha, child_window(alpha, beta).beta)

\* negamax, from the move generation to the search of the first move
begin_move_loop(f, table) ==
    LET moves == sorted_legal_moves(f.position, f.best_cached_move)
        g == [f EXCEPT !.stage = "loop", !.legal_moves = moves, !.i = 1]
    IN  Step(<< g, ChildCall(f.position, moves[1], f.depth - 1,
                             f.alpha, f.beta) >>,
             << >>, table)

\* negamax taking the static evaluation at the horizon
negamax_enter_static(f, table, flag) ==
    LET zobrist == zobrist_hash(f.position)
        probe == probe_hash(table, zobrist, f.depth, f.alpha, f.beta)
        g == [f EXCEPT !.best_cached_move =
                          IF probe.kind = "Move" THEN probe.mv ELSE NoMove]
    IN  IF probe.kind = "Some"
        THEN Step(<< >>, << probe.val >>, table)
        ELSE IF at_horizon(f, flag)
        THEN LET val == evaluate(f.position)
             IN  Step(<< >>, << val >>,
                      record_hash(table, zobrist, f.depth, val, "Exact",
                                  NoMove))
        ELSE IF null_move_allowed(f)
        THEN Step(<< [g EXCEPT !.stage = "null"],
                     CallFrame(swap_turn(f.position), f.depth - 3,
                               -f.beta, -f.beta + 1) >>,
                  << >>, table)
        ELSE begin_move_loop(g, table)

\* negamax, from its entry to its first recursive call or its return
negamax_enter(f, table, flag) ==
    LET zobrist == zobrist_hash(f.position)
        probe == probe_hash(table, zobrist, f.depth, f.alpha, f.beta)
        g == [f EXCEPT !.best_cached_move =
                          IF probe.kind = "Move" THEN probe.mv ELSE NoMove]
    IN  IF probe.kind = "Some"
        THEN Step(<< >>, << probe.val >>, table)
        ELSE IF at_horizon(f, flag)
        THEN LET val == quiesce(f.position, f.alpha, f.beta)
             IN  Step(<< >>, << val >>,
                      record_hash(table, zobrist, f.depth, val, "Exact",
                                  NoMove))
        ELSE IF null_move_allowed(f)
        THEN Step(<< [g EXCEPT !.stage = "null"],
                     CallFrame(swap_turn(f.position), f.depth - 3,
                               -f.beta, -f.beta + 1) >>,
                  << >>, table)
        ELSE begin_move_loop(g, table)

\* the null-move cutoff leaving a Beta entry for the node
negamax_after_null_recorded(f, v, table) ==
    LET null_score == -v
    IN  IF null_score >= f.beta
        THEN Step(<< >>, << f.beta >>,
                  record_hash(table, zobrist_hash(f.position), f.depth,
                              f.beta, "Beta", NoMove))
        ELSE begin_move_loop(f, table)

\* negamax, after the null-move search returned v
negamax_after_null(f, v, table) ==
    LET null_score == -v
    IN  IF null_score >= f.beta
        THEN Step(<< >>, << f.beta >>, table)
        ELSE begin_move_loop(f, table)

\* the move loop leaving the pending type as it is when a move raises alpha
negamax_after_move_type_kept(f, v, table) ==
    LET zobrist == zobrist_hash(f.position)
        m == f.legal_moves[f.i]
        score == -v
        g == IF score > f.alpha
             THEN [f EXCEPT !.alpha = score, !.best_move = m]
             ELSE f
    IN  IF score >= f.beta
        THEN Step(<< >>, << f.beta >>,
                  record_hash(table, zobrist, f.depth, f.beta, "Beta", m))
        ELSE IF f.i < Len(f.legal_moves)
        THEN Step(<< [g EXCEPT !.i = f.i + 1],
                     ChildCall(f.position, f.legal_moves[f.i + 1],
                               f.depth - 1, g.alpha, g.beta) >>,
                  << >>, table)
        ELSE Step(<< >>, << g.alpha >>,
                  record_hash(table, zobrist, f.depth, g.alpha,
                              g.transposition_type, g.best_move))

\* the move loop failing soft: the score of the cutoff move is recorded
\* and returned in place of beta
negamax_after_move_fail_soft(f, v, table) ==
    LET zobrist == zobrist_hash(f.position)
        m == f.legal_moves[f.i]
        score == -v
        g == IF score > f.alpha
             THEN [f EXCEPT !.transposition_type = "Exact",
                            !.alpha = score, !.best_move = m]
             ELSE f
    IN  IF score >= f.beta
        THEN Step(<< >>, << score >>,
                  record_hash(table, zobrist, f.depth, score, "Beta", m))
        ELSE IF f.i < Len(f.legal_moves)
        THEN Step(<< [g EXCEPT !.i = f.i + 1],
                     ChildCall(f.position, f.legal_moves[f.i + 1],
                               f.depth - 1, g.alpha, g.beta) >>,
                  << >>, table)
        ELSE Step(<< >>, << g.alpha >>,
                  record_hash(table, zobrist, f.depth, g.alpha,
                              g.transposition_type, g.best_move))

\* the move loop going on after a move reached beta
negamax_after_move_no_cutoff(f, v, table) ==
    LET zobrist == zobrist_hash(f.position)
        m == f.legal_moves[f.i]
        score == -v
        g == IF score > f.alpha
             THEN [f EXCEPT !.transposition_type = "Exact",
                            !.alpha = score, !.best_move = m]
             ELSE f
    IN  IF f.i < Len(f.legal_moves)
        THEN Step(<< [g EXCEPT !.i = f.i + 1],
                     ChildCall(f.position, f.legal_moves[f.i + 1],
                               f.depth - 1, g.alpha, g.beta) >>,
                  << >>, table)
        ELSE Step(<< >>, << g.alpha >>,
                  record_hash(table, zobrist, f.depth, g.alpha,
                              g.transposition_type, g.best_move))

\* negamax, after the search of legal_moves[i] returned v
negamax_after_move(f, v, table) ==
    LET zobrist == zobrist_hash(f.position)
        m == f.legal_moves[f.i]
        score == -v
        g == IF score > f.alpha
             THEN [f EXCEPT !.transposition_type = "Exact",
                            !.alpha = score, !.best_move = m]
             ELSE f
    IN  IF score >= f.beta
        THEN Step(<< >>, << f.beta >>,
                  record_hash(table, zobrist, f.depth, f.beta, "Beta", m))
        ELSE IF f.i < Len(f.legal_moves)
        THEN Step(<< [g EXCEPT !.i = f.i + 1],
                     ChildCall(f.position, f.legal_moves[f.i + 1],
                               f.depth - 1, g.alpha, g.beta) >>,
                  << >>, table)
        ELSE Step(<< >>, << g.alpha >>,
                  record_hash(table, zobrist, f.depth, g.alpha,
                              g.transposition_type, g.best_move))


(***************************************************************************)
(* A whole call of negamax with the flag as it stands throughout: the      *)
(* steps of the open calls are taken until the outermost call returns.     *)
(***************************************************************************)
RECURSIVE negamax_run(_, _, _, _)

negamax_run(frames, value, table, flag) ==
    IF frames = << >>
    THEN [value |-> value[1], table |-> table]
    ELSE LET f == frames[Len(frames)]
             r == IF f.stage = "call" THEN negamax_enter(f, table, flag)
                  ELSE IF f.stage = "null"
                  THEN negamax_after_null(f, value[1], table)
                  ELSE negamax_after_move(f, value[1], table)
         IN  negamax_run(SubSeq(frames, 1, Len(frames) - 1) \o r.frames,
                         r.ret, r.table, flag)

negamax(position, d, alpha, beta, table, flag) ==
    negamax_run(<< CallFrame(position, d, alpha, beta) >>, << >>, table, flag)

(***************************************************************************)
(* Initial states.                                                         *)
(***************************************************************************)
NoTime == -1

\* the clock values a go command may carry (milliseconds), NoTime if absent
Clocks == {NoTime, 1990}

\* the positions a position command may set up
SetUps == {2, 8}

\* the static scores the positions of a game may have
ScoreValues == {-100, 100}

\* the games of the front-end runs and of the search-only runs
UciGames ==
    {g \in [Positions -> ScoreValues \cup {0}] :
        /\ \A p \in Positions \ {4, 7} : g[p] = 0
        /\ g[4] # 0 /\ g[7] # 0}

SearchGames ==
    {g \in [Positions -> ScoreValues \cup {0}] :
        /\ \A p \in Positions \ {1, 2, 4, 5, 6, 7} : g[p] = 0
        /\ \A p \in {1, 2, 4, 5, 6, 7} : g[p] # 0}

\* the games of the runs of calls
CallGames ==
    {g \in SearchGames : g[5] = g[1] /\ g[6] = g[2] /\ g[7] = g[4]}

NoRoot == [legal_moves |-> << >>, i |-> 0, alpha |-> 0, best_move |-> NoMove]

InitEngine ==
    /\ is_thinking = FALSE
    /\ thinking_thread = 0
    /\ go_tokens = [wtime |-> NoTime, btime |-> NoTime]
    /\ timer = [k \in Workers |-> "unarmed"]
    /\ target_think_time = [k \in Workers |-> 0]
    /\ w_pc = [k \in Workers |-> "none"]
    /\ position_to_search = [k \in Workers |-> DefaultPosition]
    /\ depth = [k \in Workers |-> 0]
    /\ best_move = [k \in Workers |-> NoMove]
    /\ transposition_table = [k \in Workers |-> EmptyTable]
    /\ target_depth = [k \in Workers |-> 0]
    /\ last_best_move = [k \in Workers |-> NoMove]
    /\ root = [k \in Workers |-> NoRoot]
    /\ stack = [k \in Workers |-> << >>]
    /\ ret = [k \in Workers |-> << >>]
    /\ out = [k \in Workers |-> << >>]
    /\ interrupted = [k \in Workers |-> FALSE]
    /\ completed_move = [k \in Workers |-> NoMove]
    /\ seen_cleared = [k \in Workers |-> FALSE]
    /\ call_table = EmptyTable
    /\ call_log = << >>
    /\ q_pc = "idle"
    /\ q_root = NoCall
    /\ q_stack = << >>
    /\ q_ret = << >>
    /\ ev_call = NoEval

\* EngineState::new, in a front-end run
Init ==
    /\ total_score \in UciGames
    /\ depth_cap = MaxUciDepth
    /\ go_cap = MaxGo
    /\ clocks = {NoTime}
    /\ pos = DefaultPosition
    /\ InitEngine

\* a search-only run: one go, on any position a position command left
SearchInit ==
    /\ total_score \in SearchGames
    /\ depth_cap = MaxDepth
    /\ go_cap = 1
    /\ clocks = {NoTime}
    /\ pos \in Positions
    /\ InitEngine

\* a front-end run that accepts one go, on any game of the front-end runs
FairInit ==
    /\ total_score \in UciGames
    /\ depth_cap = MaxDepth
    /\ go_cap = 1
    /\ clocks = {NoTime}
    /\ pos = DefaultPosition
    /\ InitEngine

\* a run of full-window negamax calls on a shared table, empty at first
CallInit ==
    /\ total_score \in CallGames
    /\ depth_cap = MaxDepth
    /\ go_cap = 0
    /\ clocks = {NoTime}
    /\ pos = DefaultPosition
    /\ InitEngine

\* a run of one shallow search, the go carrying any clocks
TimeInit ==
    /\ total_score = [p \in Positions |-> 0]
    /\ depth_cap = MaxUciDepth
    /\ go_cap = 1
    /\ clocks = Clocks
    /\ pos = DefaultPosition
    /\ InitEngine

(***************************************************************************)
(* The front-end (main.rs).                                                *)
(***************************************************************************)
EngineVars == << pos, is_thinking, thinking_thread, go_tokens, timer,
                 target_think_time >>
WorkerVars == << w_pc, position_to_search, depth, best_move,
                 transposition_table, target_depth, last_best_move, root,
                 stack, ret, out, interrupted, completed_move, seen_cleared >>
RunVars == << total_score, depth_cap, go_cap, clocks, call_table, call_log,
             q_pc, q_root, q_stack, q_ret, ev_call >>

\* the think-time with a floor of 100 ms
think_time_floor(position, wtime, btime) ==
    LET time == IF turn(position) = "White" THEN wtime ELSE btime
        share == IF time # NoTime THEN time \div 20 ELSE 100
    IN  IF share < 100 THEN 100 ELSE share

\* handle_go: the think-time of the timer thread
think_time(position, wtime, btime) ==
    LET time == IF turn(position) = "White" THEN wtime ELSE btime
    IN  IF time # NoTime THEN time \div 20 ELSE 100

\* handle_go: whether the command is ignored
go_ignored(flag) == flag

handle_go(wtime, btime) ==
    /\ thinking_thread < go_cap
    /\ IF go_ignored(is_thinking)
       THEN UNCHANGED << is_thinking, thinking_thread, timer, go_tokens,
                         target_think_time, w_pc, position_to_search >>
       ELSE LET k == thinking_thread + 1
            IN  /\ is_thinking' = TRUE
                /\ go_tokens' = [wtime |-> wtime, btime |-> btime]
                /\ position_to_search' =
                       [position_to_search EXCEPT ![k] = pos]
                /\ target_think_time' =
                       [target_think_time EXCEPT
                            ![k] = think_time(pos, wtime, btime)]
                /\ w_pc' = [w_pc EXCEPT ![k] = "spawned"]
                /\ timer' = [timer EXCEPT ![k] = "sleeping"]
                /\ thinking_thread' = k
    /\ UNCHANGED << pos, depth, best_move, transposition_table, target_depth,
                    last_best_move, root, stack, ret, out, interrupted,
                    completed_move, seen_cleared >>
    /\ UNCHANGED RunVars

Go == \E wtime \in clocks, btime \in clocks : handle_go(wtime, btime)

handle_stop ==
    /\ is_thinking' = FALSE
    /\ UNCHANGED << pos, thinking_thread, go_tokens, timer,
                    target_think_time >>
    /\ UNCHANGED WorkerVars
    /\ UNCHANGED RunVars

\* a timer thread that wakes up and leaves the flag as it is
TimerFire_flag_kept(k) ==
    /\ timer[k] = "sleeping"
    /\ timer' = [timer EXCEPT ![k] = "fired"]
    /\ UNCHANGED << pos, is_thinking, thinking_thread, go_tokens,
                    target_think_time >>
    /\ UNCHANGED WorkerVars
    /\ UNCHANGED RunVars

\* the timer thread of go number k wakes up
TimerFire(k) ==
    /\ timer[k] = "sleeping"
    /\ timer' = [timer EXCEPT ![k] = "fired"]
    /\ is_thinking' = FALSE
    /\ UNCHANGED << pos, thinking_thread, go_tokens, target_think_time >>
    /\ UNCHANGED WorkerVars
    /\ UNCHANGED RunVars

\* a position command that also reaches the searches under way
handle_position_shared(p) ==
    /\ thinking_thread < go_cap
    /\ pos' = p
    /\ position_to_search' =
           [k \in Workers |-> IF w_pc[k] \notin {"none", "done", "panicked"}
                              THEN p ELSE position_to_search[k]]
    /\ UNCHANGED << is_thinking, thinking_thread, go_tokens, timer,
                    target_think_time >>
    /\ UNCHANGED << w_pc, depth, best_move, transposition_table, target_depth,
                    last_best_move, root, stack, ret, out, interrupted,
                    completed_move, seen_cleared >>
    /\ UNCHANGED RunVars

\* position commands are taken until the last go of the run
handle_position(p) ==
    /\ thinking_thread < go_cap
    /\ pos' = p
    /\ UNCHANGED << is_thinking, thinking_thread, go_tokens, timer,
                    target_think_time >>
    /\ UNCHANGED WorkerVars
    /\ UNCHANGED RunVars

Position == \E p \in SetUps : handle_position(p)

handle_ucinewgame ==
    /\ thinking_thread < go_cap
    /\ pos' = DefaultPosition
    /\ UNCHANGED << is_thinking, thinking_thread, go_tokens, timer,
                    target_think_time >>
    /\ UNCHANGED WorkerVars
    /\ UNCHANGED RunVars


(***************************************************************************)
(* The search worker thread of go number k (main.rs) and its root search   *)
(* (Searcher::next_move).  w_pc[k] is "none" before the thread exists,     *)
(* then "spawned", "root_loop" (at the head of the root move loop),        *)
(* "search" (inside a negamax call of the root), "root_exit" (after the    *)
(* loop), "driver_loop" (at the head of the deepening loop), and at last   *)
(* "done" (bestmove printed) or "panicked".                                *)
(***************************************************************************)
top(k) == stack[k][Len(stack[k])]
below(k) == SubSeq(stack[k], 1, Len(stack[k]) - 1)

\* next_move, up to its move loop: sort the moves, open the window
RootAlphaInit == NEGATIVE_INFINITY

next_move_begin(k, d, preferred) ==
    /\ target_depth' = [target_depth EXCEPT ![k] = d]
    /\ last_best_move' = [last_best_move EXCEPT ![k] = preferred]
    /\ root' = [root EXCEPT ![k] =
                   [legal_moves |->
                        sorted_legal_moves(position_to_search[k], preferred),
                    i |-> 1, alpha |-> RootAlphaInit,
                    best_move |-> NoMove]]
    /\ interrupted' = [interrupted EXCEPT ![k] = FALSE]
    /\ w_pc' = [w_pc EXCEPT ![k] = "root_loop"]

\* the worker of a later go taking over the table of the go before it
new_table_kept(k) ==
    IF k > 1 THEN transposition_table[k - 1] ELSE EmptyTable

\* the table the worker thread of go number k searches with
new_table(k) == EmptyTable

\* the thread starts: a new table, a Searcher of depth 1, next_move
WorkerStart(k) ==
    /\ w_pc[k] = "spawned"
    /\ transposition_table' = [transposition_table EXCEPT ![k] = new_table(k)]
    /\ next_move_begin(k, 1, NoMove)
    /\ UNCHANGED << position_to_search, depth, best_move, stack, ret, out,
                    completed_move, seen_cleared >>
    /\ UNCHANGED EngineVars
    /\ UNCHANGED RunVars

\* next_move, head of the move loop: search the next move, or leave
RootLoop(k) ==
    /\ w_pc[k] = "root_loop"
    /\ IF root[k].i <= Len(root[k].legal_moves)
       THEN /\ stack' = [stack EXCEPT ![k] =
                   << ChildCall(position_to_search[k],
                                root[k].legal_moves[root[k].i],
                                target_depth[k] - 1,
                                root[k].alpha, POSITIVE_INFINITY) >>]
            /\ w_pc' = [w_pc EXCEPT ![k] = "search"]
       ELSE /\ w_pc' = [w_pc EXCEPT ![k] = "root_exit"]
            /\ UNCHANGED stack
    /\ UNCHANGED << position_to_search, depth, best_move,
                    transposition_table, target_depth, last_best_move, root,
                    ret, out, interrupted, completed_move, seen_cleared >>
    /\ UNCHANGED EngineVars
    /\ UNCHANGED RunVars

\* the effect of one step of the innermost open call
apply_step(k, r) ==
    /\ stack' = [stack EXCEPT ![k] = below(k) \o r.frames]
    /\ ret' = [ret EXCEPT ![k] = r.ret]
    /\ transposition_table' = [transposition_table EXCEPT ![k] = r.table]

\* whether entering the call f reads the flag, and reads it cleared
reads_flag_cleared(f, table, flag) ==
    /\ probe_hash(table, zobrist_hash(f.position), f.depth, f.alpha,
                  f.beta).kind # "Some"
    /\ f.depth # 0
    /\ ~is_game_over(f.position)
    /\ ~flag

\* a negamax call is entered
NegamaxEnter(k) ==
    /\ w_pc[k] = "search"
    /\ stack[k] # << >>
    /\ top(k).stage = "call"
    /\ apply_step(k, negamax_enter(top(k), transposition_table[k],
                                   is_thinking))
    /\ LET cleared == reads_flag_cleared(top(k), transposition_table[k],
                                         is_thinking)
       IN  /\ interrupted' = [interrupted EXCEPT ![k] = @ \/ cleared]
           /\ seen_cleared' = [seen_cleared EXCEPT ![k] = @ \/ cleared]
    /\ UNCHANGED << w_pc, position_to_search, depth, best_move, target_depth,
                    last_best_move, root, out, completed_move >>
    /\ UNCHANGED EngineVars
    /\ UNCHANGED RunVars

\* a negamax call returns into the negamax call that made it
NegamaxReturn(k) ==
    /\ w_pc[k] = "search"
    /\ stack[k] # << >>
    /\ ret[k] # << >>
    /\ apply_step(k, IF top(k).stage = "null"
                     THEN negamax_after_null(top(k), ret[k][1],
                                             transposition_table[k])
                     ELSE negamax_after_move(top(k), ret[k][1],
                                             transposition_table[k]))
    /\ UNCHANGED << w_pc, position_to_search, depth, best_move, target_depth,
                    last_best_move, root, out, interrupted, completed_move,
                    seen_cleared >>
    /\ UNCHANGED EngineVars
    /\ UNCHANGED RunVars

\* the move loop honouring the flag before it keeps the move
root_after_move_flag_first(r, score, flag) ==
    IF ~flag
    THEN [root |-> r, break |-> TRUE]
    ELSE [root |-> IF score > r.alpha
                   THEN [r EXCEPT !.alpha = score,
                                  !.best_move = r.legal_moves[r.i]]
                   ELSE r,
          break |-> FALSE]

\* next_move, the body of the move loop after negamax returned: first the
\* score is compared and the move kept, then the flag is honoured
root_after_move(r, score, flag) ==
    [root |-> IF score > r.alpha
              THEN [r EXCEPT !.alpha = score,
                             !.best_move = r.legal_moves[r.i]]
              ELSE r,
     break |-> ~flag]

\* a negamax call returns into next_move
RootReturn(k) ==
    /\ w_pc[k] = "search"
    /\ stack[k] = << >>
    /\ ret[k] # << >>
    /\ LET after == root_after_move(root[k], -ret[k][1], is_thinking)
       IN  IF after.break
           THEN /\ root' = [root EXCEPT ![k] = after.root]
                /\ w_pc' = [w_pc EXCEPT ![k] = "root_exit"]
           ELSE /\ root' = [root EXCEPT ![k] =
                                [after.root EXCEPT !.i = @ + 1]]
                /\ w_pc' = [w_pc EXCEPT ![k] = "root_loop"]
    /\ interrupted' = [interrupted EXCEPT ![k] = @ \/ ~is_thinking]
    /\ seen_cleared' = [seen_cleared EXCEPT ![k] = @ \/ ~is_thinking]
    /\ ret' = [ret EXCEPT ![k] = << >>]
    /\ UNCHANGED << position_to_search, depth, best_move,
                    transposition_table, target_depth, last_best_move, stack,
                    out, completed_move >>
    /\ UNCHANGED EngineVars
    /\ UNCHANGED RunVars

\* next_move handing out a made-up move where it has none
next_move_result_fabricated(r) ==
    IF r.best_move = NoMove
    THEN Mv(DefaultPosition, "Pawn", NoRole, NoRole, FALSE)
    ELSE r.best_move

\* next_move, best_move.expect: the move returned, NoMove for the panic
next_move_result(r) == r.best_move

\* next_move returns its best move to the driver, or panics without one
NextMoveReturn(k) ==
    /\ w_pc[k] = "root_exit"
    /\ IF next_move_result(root[k]) = NoMove
       THEN /\ w_pc' = [w_pc EXCEPT ![k] = "panicked"]
            /\ UNCHANGED << best_move, depth, completed_move >>
       ELSE /\ w_pc' = [w_pc EXCEPT ![k] = "driver_loop"]
            /\ best_move' = [best_move EXCEPT ![k] =
                                next_move_result(root[k])]
            /\ depth' = [depth EXCEPT ![k] =
                            IF target_depth[k] = 1 THEN 2 ELSE @ + 1]
            /\ completed_move' = [completed_move EXCEPT ![k] =
                            IF interrupted[k] THEN @
                            ELSE next_move_result(root[k])]
    /\ UNCHANGED << position_to_search, transposition_table, target_depth,
                    last_best_move, root, stack, ret, out, interrupted,
                    seen_cleared >>
    /\ UNCHANGED EngineVars
    /\ UNCHANGED RunVars

\* the deepening loop finds the flag set and searches one ply deeper
DriverIterate(k) ==
    /\ w_pc[k] = "driver_loop"
    /\ is_thinking
    /\ depth[k] <= depth_cap
    /\ next_move_begin(k, depth[k], best_move[k])
    /\ UNCHANGED << position_to_search, depth, best_move,
                    transposition_table, stack, ret, out, completed_move,
                    seen_cleared >>
    /\ UNCHANGED EngineVars
    /\ UNCHANGED RunVars

\* the deepening loop finds the flag cleared and prints bestmove
DriverBreak(k) ==
    /\ w_pc[k] = "driver_loop"
    /\ ~is_thinking
    /\ out' = [out EXCEPT ![k] = Append(@, best_move[k])]
    /\ seen_cleared' = [seen_cleared EXCEPT ![k] = TRUE]
    /\ w_pc' = [w_pc EXCEPT ![k] = "done"]
    /\ UNCHANGED << position_to_search, depth, best_move,
                    transposition_table, target_depth, last_best_move, root,
                    stack, ret, interrupted, completed_move >>
    /\ UNCHANGED EngineVars
    /\ UNCHANGED RunVars

Worker(k) ==
    \/ WorkerStart(k)
    \/ RootLoop(k)
    \/ NegamaxEnter(k)
    \/ NegamaxReturn(k)
    \/ RootReturn(k)
    \/ NextMoveReturn(k)
    \/ DriverIterate(k)
    \/ DriverBreak(k)

Next ==
    \/ Go
    \/ handle_stop
    \/ Position
    \/ handle_ucinewgame
    \/ \E k \in Workers : TimerFire(k)
    \/ \E k \in Workers : WorkerStart(k)
    \/ \E k \in Workers : RootLoop(k)
    \/ \E k \in Workers : NegamaxEnter(k)
    \/ \E k \in Workers : NegamaxReturn(k)
    \/ \E k \in Workers : RootReturn(k)
    \/ \E k \in Workers : NextMoveReturn(k)
    \/ \E k \in Workers : DriverIterate(k)
    \/ \E k \in Workers : DriverBreak(k)

Spec == Init /\ [][Next]_vars

(***************************************************************************)
(* negamax called with the full window, as next_move calls it for its      *)
(* first move, the table shared between the calls.                         *)
(***************************************************************************)
Call(position, d, flag) ==
    /\ Len(call_log) < MaxCalls
    /\ LET r == negamax(position, d, NEGATIVE_INFINITY, POSITIVE_INFINITY,
                        call_table, flag)
       IN  /\ call_table' = r.table
           /\ call_log' = Append(call_log,
                  [position |-> position, depth |-> d, flag |-> flag,
                   entry |-> call_table[zobrist_hash(position)],
                   value |-> r.value])
    /\ UNCHANGED << total_score, depth_cap, go_cap, clocks, q_pc, q_root,
                    q_stack, q_ret, ev_call >>
    /\ UNCHANGED EngineVars
    /\ UNCHANGED WorkerVars

CallNext ==
    \E position \in Positions, d \in 0 .. MaxCallDepth, flag \in BOOLEAN :
        Call(position, d, flag)

CallSpec == CallInit /\ [][CallNext]_vars

SearchSpec == SearchInit /\ [][Next]_vars

(***************************************************************************)
(* quiesce called on a position of the provider, one step at a time.       *)
(***************************************************************************)
\* the longest run of captures the provider allows from a position
RECURSIVE capture_chain(_)
capture_chain(p) ==
    LET lens == {1 + capture_chain(play_unchecked(p, legal_moves(p)[i])) :
                    i \in {j \in 1 .. Len(legal_moves(p)) :
                              legal_moves(p)[j].cap # NoRole}}
    IN  IF lens = {} THEN 0 ELSE CHOOSE n \in lens : \A l \in lens : l <= n

\* the piece counts a board of position p can have: the two kings, which
\* are never captured, and a piece for every capture that can follow
board_pieces(p) == {n \in 2 .. MaxPieces : n >= 2 + capture_chain(p)}

QuiesceWindows ==
    {w \in (ScoreValues \cup {0, NEGATIVE_INFINITY, POSITIVE_INFINITY})
           \X (ScoreValues \cup {0, NEGATIVE_INFINITY, POSITIVE_INFINITY}) :
        w[1] < w[2]}

QuiesceInit ==
    /\ total_score \in SearchGames
    /\ depth_cap = MaxDepth
    /\ go_cap = 0
    /\ clocks = {NoTime}
    /\ pos = DefaultPosition
    /\ InitEngine

QuiesceCall(position, pieces, alpha, beta) ==
    /\ q_pc = "idle"
    /\ q_pc' = "running"
    /\ q_root' = [position |-> position, pieces |-> pieces, alpha |-> alpha,
                  beta |-> beta]
    /\ q_stack' = << QuiesceFrame(position, pieces, alpha, beta) >>
    /\ q_ret' = << >>
    /\ UNCHANGED << total_score, depth_cap, go_cap, clocks, call_table,
                    call_log, ev_call >>
    /\ UNCHANGED EngineVars
    /\ UNCHANGED WorkerVars

\* the open call on top of the stack runs to its next call or its return
QuiesceRun(step) ==
    /\ q_stack' = SubSeq(q_stack, 1, Len(q_stack) - 1) \o step.frames
    /\ q_ret' = step.ret
    /\ q_pc' = IF Len(q_stack) = 1 /\ step.frames = << >> THEN "done"
                                                          ELSE "running"
    /\ UNCHANGED << total_score, depth_cap, go_cap, clocks, call_table,
                    call_log, q_root, ev_call >>
    /\ UNCHANGED EngineVars
    /\ UNCHANGED WorkerVars

QuiesceEnter ==
    /\ q_pc = "running"
    /\ Len(q_stack) <= MaxQuiesceDepth
    /\ q_stack[Len(q_stack)].stage = "call"
    /\ QuiesceRun(quiesce_enter(q_stack[Len(q_stack)]))

QuiesceReturn ==
    /\ q_pc = "running"
    /\ q_stack[Len(q_stack)].stage = "loop"
    /\ q_ret # << >>
    /\ QuiesceRun(quiesce_after_move(q_stack[Len(q_stack)], q_ret[1]))

QuiesceNext ==
    \/ \E position \in Positions, w \in QuiesceWindows :
           \E pieces \in board_pieces(position) :
               QuiesceCall(position, pieces, w[1], w[2])
    \/ QuiesceEnter
    \/ QuiesceReturn

\* a call that has started keeps running
QuiesceSpec ==
    /\ QuiesceInit
    /\ [][QuiesceNext]_vars
    /\ WF_vars(QuiesceEnter)
    /\ WF_vars(QuiesceReturn)

(***************************************************************************)
(* The evaluation functions called on a board.                             *)
(***************************************************************************)
EvalInit ==
    /\ total_score \in CallGames
    /\ depth_cap = MaxDepth
    /\ go_cap = 0
    /\ clocks = {NoTime}
    /\ pos = DefaultPosition
    /\ InitEngine

Evaluate(p, pst) ==
    /\ ev_call = NoEval
    /\ ev_call' =
           [position |-> p, pst |-> pst,
            engine |-> engine_evaluate(p, pst),
            engine_flipped |-> IF flip_is_legal(p)
                               THEN engine_evaluate(flip_turn(p), pst) ELSE 0,
            eval |-> eval_evaluate(p),
            eval_flipped |-> IF flip_is_legal(p)
                             THEN eval_evaluate(flip_turn(p)) ELSE 0]
    /\ UNCHANGED << total_score, depth_cap, go_cap, clocks, call_table,
                    call_log, q_pc, q_root, q_stack, q_ret >>
    /\ UNCHANGED EngineVars
    /\ UNCHANGED WorkerVars

EvalNext == \E p \in EvalPositions, pst \in PstChoices : Evaluate(p, pst)

EvalSpec == EvalInit /\ [][EvalNext]_vars

TimeSpec == TimeInit /\ [][Next]_vars

\* the threads are scheduled and a sleeping timer wakes up
Fairness ==
    \A k \in Workers : WF_vars(Worker(k)) /\ WF_vars(TimerFire(k))

FairSpec == FairInit /\ [][Next]_vars /\ Fairness

(***************************************************************************)
(* Claims.                                                                 *)
(***************************************************************************)
Range(s) == {s[i] : i \in 1 .. Len(s)}

running(k) == w_pc[k] \notin {"none", "done", "panicked"}

\* C1: whenever the searched position has a legal move, the worker never
\* panics for want of a move, and every bestmove it prints is one of the
\* legal moves of the searched position, whenever the flag is cleared.
C1_BestmoveLegal ==
    \A k \in Workers :
        legal_moves(position_to_search[k]) # << >> =>
            /\ w_pc[k] # "panicked"
            /\ \A i \in 1 .. Len(out[k]) :
                   out[k][i] \in Range(legal_moves(position_to_search[k]))

\* C1, its case: a worker printed bestmove after a depth-1 search that
\* found the flag cleared
C1_Witness ==
    \E k \in Workers :
        /\ w_pc[k] = "done"
        /\ target_depth[k] = 1
        /\ interrupted[k]
        /\ Len(out[k]) = 1

\* C2: the bestmove printed is the move of the last iteration that read
\* the flag set throughout (when there is one); an interrupted iteration's
\* move never replaces it.
C2_InterruptedDiscarded ==
    \A k \in Workers :
        (w_pc[k] = "done" /\ completed_move[k] # NoMove) =>
            out[k] = << completed_move[k] >>

\* C4: a worker asked to search a position without legal moves never
\* holds or prints a move: it ends in the "No legal moves found" panic.
C4_TerminalPanics ==
    \A k \in Workers :
        (w_pc[k] # "none" /\ legal_moves(position_to_search[k]) = << >>) =>
            /\ out[k] = << >>
            /\ best_move[k] = NoMove
            /\ w_pc[k] \in {"spawned", "root_loop", "root_exit", "panicked"}

\* C4, its case: a worker on a position without legal moves has panicked
C4_Witness ==
    \E k \in Workers :
        /\ legal_moves(position_to_search[k]) = << >>
        /\ w_pc[k] = "panicked"

\* C5: while a worker that has read the flag cleared is still running, no
\* step sets the flag back to true.
C5_FlagMonotone ==
    [][ (\E k \in Workers : running(k) /\ seen_cleared[k]) =>
            ~(~is_thinking /\ is_thinking') ]_vars

\* where the depth-1 search of go number k starts
at_first_search(k) ==
    w_pc[k] = "root_loop" /\ target_depth[k] = 1 /\ root[k].i = 1

\* where a deeper iteration of go number k starts
at_deeper_search(k) ==
    w_pc[k] = "root_loop" /\ target_depth[k] >= 2 /\ root[k].i = 1

entries(k) == {h \in Positions : transposition_table[k][h].present}

available_clock(k) ==
    IF turn(position_to_search[k]) = "White" THEN go_tokens.wtime
                                             ELSE go_tokens.btime

\* C7: the think-time of the timer of the last accepted go is
\* max(available_clock / 20, 100), and 100 without a clock.
C7_ThinkTimeFloor ==
    \A k \in Workers :
        (k = thinking_thread /\ timer[k] # "unarmed") =>
            target_think_time[k] =
                IF available_clock(k) = NoTime THEN 100
                ELSE IF available_clock(k) \div 20 < 100 THEN 100
                ELSE available_clock(k) \div 20

\* C7 amended: the think-time is available_clock / 20 (rounded down, with
\* no floor) when the side to move has a clock, and 100 without one.
C7_ThinkTime ==
    \A k \in Workers :
        (k = thinking_thread /\ timer[k] # "unarmed") =>
            target_think_time[k] =
                IF available_clock(k) = NoTime THEN 100
                ELSE available_clock(k) \div 20

\* C7, its case: a go with a clock of the side to move below 2000 ms armed
\* a timer of less than 100 ms
C7_Witness ==
    \E k \in Workers :
        /\ k = thinking_thread
        /\ timer[k] # "unarmed"
        /\ available_clock(k) # NoTime
        /\ target_think_time[k] < 100

\* the minimax value of a position at a depth: full window, quiescence at
\* the horizon, no table and no pruning
RECURSIVE minimax(_, _), minimax_loop(_, _, _, _)

minimax(position, d) ==
    IF d = 0 \/ is_game_over(position)
    THEN quiesce(position, NEGATIVE_INFINITY, POSITIVE_INFINITY)
    ELSE minimax_loop(position, d, 1, NEGATIVE_INFINITY)

minimax_loop(position, d, i, best) ==
    IF i > Len(legal_moves(position))
    THEN best
    ELSE LET score == -minimax(play_unchecked(position,
                                              legal_moves(position)[i]),
                               d - 1)
         IN  minimax_loop(position, d, i + 1,
                          IF score > best THEN score ELSE best)

\* C8: every Exact entry of a table holds the minimax value of its
\* position at its depth.
C8_ExactIsMinimax ==
    \A k \in Workers : \A h \in Positions :
        LET info == transposition_table[k][h]
        IN  (info.present /\ info.transposition_type = "Exact") =>
                info.value = minimax(h, info.depth)

\* the probe a call of negamax is about to make
probe_of(k) ==
    probe_hash(transposition_table[k], zobrist_hash(top(k).position),
               top(k).depth, top(k).alpha, top(k).beta)

about_to_probe(k) ==
    w_pc[k] = "search" /\ stack[k] # << >> /\ top(k).stage = "call"

\* C9: no probe made by negamax answers a cutoff value above beta from an
\* upper-bound (Alpha) entry or below alpha from a lower-bound (Beta) entry.
C9_ProbeInsideWindow ==
    \A k \in Workers :
        (about_to_probe(k) /\ probe_of(k).kind = "Some") =>
            LET info == transposition_table[k][top(k).position]
            IN  /\ info.transposition_type = "Alpha" =>
                       probe_of(k).val <= top(k).beta
                /\ info.transposition_type = "Beta" =>
                       probe_of(k).val >= top(k).alpha

\* C9, its case: a probe is answered with a cutoff from an Alpha entry
C9_Witness ==
    \E k \in Workers :
        /\ about_to_probe(k)
        /\ probe_of(k).kind = "Some"
        /\ transposition_table[k][top(k).position].transposition_type
               = "Alpha"

\* C9, its other case: a probe is answered with a cutoff from a Beta entry
C9_WitnessBeta ==
    \E k \in Workers :
        /\ about_to_probe(k)
        /\ probe_of(k).kind = "Some"
        /\ transposition_table[k][top(k).position].transposition_type
               = "Beta"

started(k) == w_pc[k] # "none"

\* the requests a table is probed with in the check of C19
ProbeDepths == {0, 1, MaxDepth}
ProbeWindows == { << NEGATIVE_INFINITY, POSITIVE_INFINITY >>,
                  << -100, 100 >>, << 100, POSITIVE_INFINITY >>,
                  << NEGATIVE_INFINITY, -100 >> }

\* C19: probe answers Miss when no entry exists; with entry.depth >= depth
\* it answers CutoffValue(entry.value) for an Exact entry, CutoffValue(alpha)
\* for an UpperBound entry with value <= alpha, CutoffValue(beta) for a
\* LowerBound entry with value >= beta; in every other case HintMove of the
\* entry's best move if it has one and Miss otherwise.  A call of negamax
\* that the probe answers leaves the table as it was.
C19_ProbeTable ==
    \A k \in Workers : started(k) =>
        /\ \A h \in Positions, d \in ProbeDepths, w \in ProbeWindows :
            LET entry == transposition_table[k][h]
                alpha == w[1]
                beta == w[2]
                r == probe_hash(transposition_table[k], h, d, alpha, beta)
                deep == entry.present /\ entry.depth >= d
                exact == deep /\ entry.transposition_type = "Exact"
                upper == /\ deep /\ entry.transposition_type = "Alpha"
                         /\ entry.value <= alpha
                lower == /\ deep /\ entry.transposition_type = "Beta"
                         /\ entry.value >= beta
            IN  /\ ~entry.present => r = ProbeNone
                /\ exact => r = ProbeSome(entry.value)
                /\ upper => r = ProbeSome(alpha)
                /\ lower => r = ProbeSome(beta)
                /\ (entry.present /\ ~exact /\ ~upper /\ ~lower) =>
                       r = IF entry.best_move # NoMove
                           THEN ProbeMove(entry.best_move)
                           ELSE ProbeNone
        /\ (about_to_probe(k) /\ probe_of(k).kind = "Some") =>
               negamax_enter(top(k), transposition_table[k],
                             is_thinking).table = transposition_table[k]

\* C19, its case: a call of negamax deeper than the entry of its position
\* is about to get the entry's best move as a hint
C19_Witness ==
    \E k \in Workers :
        /\ about_to_probe(k)
        /\ transposition_table[k][top(k).position].present
        /\ transposition_table[k][top(k).position].depth < top(k).depth
        /\ probe_of(k).kind = "Move"

\* C20: negamax leaves its move loop on the first move m with score >= beta,
\* recording (depth, beta, LowerBound, m) and returning beta, or after the
\* last move, recording (depth, final alpha, bound, best_move) and returning
\* the final alpha; bound is Exact iff a move raised alpha above the alpha
\* the call was entered with, and UpperBound with no best move otherwise.
C20_LoopExitRecords ==
    [][ \A k \in Workers :
          ( /\ w_pc[k] = "search" /\ stack[k] # << >> /\ ret[k] # << >>
            /\ top(k).stage = "loop"
            /\ stack'[k] # stack[k] ) =>
            LET f == top(k)
                m == f.legal_moves[f.i]
                score == -ret[k][1]
                final == IF score > f.alpha THEN score ELSE f.alpha
                raised == final > f.alpha0
                left == Len(stack'[k]) < Len(stack[k])
                entry == transposition_table'[k][zobrist_hash(f.position)]
            IN  /\ left <=> (score >= f.beta \/ f.i = Len(f.legal_moves))
                /\ (left /\ score >= f.beta) =>
                       /\ entry = [present |-> TRUE, depth |-> f.depth,
                                   value |-> f.beta, best_move |-> m,
                                   transposition_type |-> "Beta"]
                       /\ ret'[k] = << f.beta >>
                /\ (left /\ score < f.beta) =>
                       /\ entry.present
                       /\ entry.depth = f.depth
                       /\ entry.value = final
                       /\ ret'[k] = << final >>
                       /\ entry.transposition_type =
                              IF raised THEN "Exact" ELSE "Alpha"
                       /\ raised => entry.best_move \in Range(f.legal_moves)
                       /\ ~raised => entry.best_move = NoMove
      ]_vars

\* C20, its case: a table holds a LowerBound entry with its cutoff move, an
\* UpperBound entry and an Exact entry with a best move
C20_Witness ==
    \E k \in Workers : \E h1, h2, h3 \in Positions :
        LET t == transposition_table[k]
        IN  /\ t[h1].present /\ t[h1].transposition_type = "Beta"
            /\ t[h1].best_move # NoMove
            /\ t[h2].present /\ t[h2].transposition_type = "Alpha"
            /\ t[h3].present /\ t[h3].transposition_type = "Exact"
            /\ t[h3].best_move # NoMove

\* C11: a call negamax(p, d, -INF, +INF) made directly after a call with
\* the same arguments, on the table the first call left, returns a score
\* that is not lower than the score of the first call.
C11_SecondCallNotWorse ==
    \A i \in 2 .. Len(call_log) :
        ( /\ call_log[i].position = call_log[i - 1].position
          /\ call_log[i].depth = call_log[i - 1].depth ) =>
            call_log[i].value >= call_log[i - 1].value

\* C11, its case: a search of depth 2 or more with the flag set was called
\* a second time
C11_Witness ==
    /\ Len(call_log) = 2
    /\ call_log[1].position = call_log[2].position
    /\ call_log[1].depth = call_log[2].depth
    /\ call_log[1].depth >= 2
    /\ call_log[1].flag
    /\ ~is_game_over(call_log[1].position)

\* C12: every call negamax(p, 0, -INF, +INF) on a position that is not
\* game-over returns quiesce(p, -INF, +INF).
C12_DepthZeroIsQuiesce ==
    \A i \in 1 .. Len(call_log) :
        (call_log[i].depth = 0 /\ ~is_game_over(call_log[i].position)) =>
            call_log[i].value = quiesce(call_log[i].position,
                                        NEGATIVE_INFINITY, POSITIVE_INFINITY)

\* C12 amended: a call negamax(p, 0, -INF, +INF) on a position that is not
\* game-over returns quiesce(p, -INF, +INF) when the table holds no Exact
\* entry for p (a fresh table among them), and the value of the Exact entry
\* when it holds one.
C12_DepthZeroUnlessStored ==
    \A i \in 1 .. Len(call_log) :
        (call_log[i].depth = 0 /\ ~is_game_over(call_log[i].position)) =>
            LET entry == call_log[i].entry
            IN  call_log[i].value =
                    IF entry.present /\ entry.transposition_type = "Exact"
                    THEN entry.value
                    ELSE quiesce(call_log[i].position,
                                 NEGATIVE_INFINITY, POSITIVE_INFINITY)

\* C12, its case: a depth-0 call on a position with a capture, on a table
\* that holds entries but no Exact entry for the position
C12_Witness ==
    \E i \in 1 .. Len(call_log) :
        /\ call_log[i].depth = 0
        /\ ~is_game_over(call_log[i].position)
        /\ capture_moves(call_log[i].position) # << >>
        /\ i > 1
        /\ ~(call_log[i].entry.present
             /\ call_log[i].entry.transposition_type = "Exact")

\* strictly inside +/- INF / 2 (INF is odd)
inside_half_inf(v) ==
    /\ v <= POSITIVE_INFINITY \div 2
    /\ v >= -(POSITIVE_INFINITY \div 2)

\* C14: every score returned by evaluate, by quiesce and by negamax, in the
\* calls the driver makes for its first root move and in the calls these
\* make (the null-move searches among them), is strictly inside
\* +/- INF / 2.  Every value negamax records in the table is the value the
\* recording call returns.
C14_ScoresInsideHalfInf ==
    /\ \A p \in Positions :
           /\ inside_half_inf(evaluate(p))
           /\ inside_half_inf(quiesce(p, NEGATIVE_INFINITY,
                                      POSITIVE_INFINITY))
    /\ \A i \in 1 .. Len(call_log) : inside_half_inf(call_log[i].value)
    /\ \A h \in Positions :
           call_table[h].present => inside_half_inf(call_table[h].value)

\* C13: a call of quiesce returns, with the score the recursion defines; a
\* capture takes a piece off the board, so every open call has fewer pieces
\* than its caller, and the number of open calls never exceeds the number
\* of pieces of the position the call started on.
C13_QuiesceTerminates ==
    /\ [](/\ Len(q_stack) <= q_root.pieces
          /\ \A j \in 1 .. Len(q_stack) :
                 /\ q_stack[j].pieces >= 2
                 /\ j > 1 => q_stack[j].pieces < q_stack[j - 1].pieces
          /\ q_pc = "done" =>
                 q_ret = << quiesce(q_root.position, q_root.alpha,
                                    q_root.beta) >>)
    /\ (q_pc = "running" ~> q_pc = "done")

\* a call on the position with the longest run of captures has returned a
\* score that a capture produced
C13_Witness ==
    /\ q_pc = "done"
    /\ capture_chain(q_root.position) >= 3
    /\ q_ret # << evaluate(q_root.position) >>

\* four calls of quiesce are open
C13_WitnessDeep == q_pc = "running" /\ Len(q_stack) = 4

\* the evaluation functions have been called on a position
evaluated == ev_call # NoEval

\* C15: for every position whose side to move can legally be flipped, the
\* evaluation the search uses returns on the flipped position the negation
\* of what it returns on the position.
C15_EvaluateAntisymmetric ==
    (evaluated /\ flip_is_legal(ev_call.position)) =>
        ev_call.engine = -ev_call.engine_flipped

\* C16: on a position that is not game over and whose board is its own
\* colour mirror, the evaluation the search uses returns 0, whichever side
\* is to move.
C16_MirrorBoardIsZero ==
    (/\ evaluated
     /\ ~board_is_game_over(ev_call.position)
     /\ mirror(ev_call.position.board) = ev_call.position.board) =>
        ev_call.engine = 0

\* C17: on a game-over position both evaluation functions return
\* MATE_SCORE when the side to move is the decisive winner, -MATE_SCORE
\* when the other side is, and 0 on a draw, with nothing added.
C17_TerminalScores ==
    (evaluated /\ board_is_game_over(ev_call.position)) =>
        LET o == ev_call.position.outcomes[ev_call.position.turn]
            expected == CASE o = ev_call.position.turn -> MATE_SCORE
                          [] o = other(ev_call.position.turn) -> -MATE_SCORE
                          [] o = "Draw" -> 0
        IN  ev_call.engine = expected /\ ev_call.eval = expected

\* the side to move is checkmated on a board whose material terms are not 0
C17_Witness ==
    /\ evaluated
    /\ ev_call.position.outcomes[ev_call.position.turn]
           = other(ev_call.position.turn)
    /\ material_score(ev_call.position, ev_call.pst) # 0
    /\ ev_call.engine = -MATE_SCORE

\* C18: on every position that is not game over the evaluation the search
\* uses equals (mg_score * phase + eg_score * (24 - phase)) / 24 with
\* phase the piece weights summed and clamped to 24.
C18_SearchEvaluatesTapered ==
    (evaluated /\ ~board_is_game_over(ev_call.position)) =>
        ev_call.engine = tapered_score(ev_call.position)

\* the move loop of the open call f goes on to a late quiet move: the move
\* has index i >= 4 counted from 0, the node has depth >= 3, the move is
\* no capture and the position it leads to is not in check
late_quiet_move(f) ==
    /\ f.stage = "loop"
    /\ f.i - 1 >= 4
    /\ f.depth >= 3
    /\ f.legal_moves[f.i].cap = NoRole
    /\ ~checkers_any(play_unchecked(f.position, f.legal_moves[f.i]))

\* a step of worker k goes on to the next move of the open call at level n
\* of the stack and calls negamax on it
next_move_called(k, n) ==
    /\ Len(stack[k]) = n
    /\ Len(stack'[k]) = n + 1
    /\ stack[k][n].stage = "loop"
    /\ stack'[k][n].stage = "loop"
    /\ stack'[k][n].i = stack[k][n].i + 1

\* C21: the first search of a late quiet move at a node of depth >= 3 is
\* made at depth - 2.
C21_LateMoveReduced ==
    [][\A k \in Workers : \A n \in 1 .. MaxDepth :
          (next_move_called(k, n) /\ late_quiet_move(stack'[k][n])) =>
              stack'[k][n + 1].depth = stack'[k][n].depth - 2]_vars

\* the open call at level n of worker k waits for its null-move search
\* under the conditions of the null move, and the search it waits for was
\* called on the swapped position at depth - 3 with window (-beta, -beta+1)
null_search_as_specified(k, n) ==
    LET f == stack[k][n]
    IN  /\ f.depth >= 3
        /\ ~checkers_any(f.position)
        /\ swap_turn(f.position) # NoPos
        /\ n < Len(stack[k]) =>
               LET c == stack[k][n + 1]
               IN  /\ c.position = swap_turn(f.position)
                   /\ c.depth = f.depth - 3
                   /\ c.alpha0 = -f.beta
                   /\ c.beta = -f.beta + 1

\* worker k enters the call on top of its stack past the probe and the
\* horizon test
enters_node(k) ==
    /\ stack[k] # << >>
    /\ top(k).stage = "call"
    /\ Len(stack'[k]) = Len(stack[k]) + 1

\* the null-move search of the call on top of the stack of worker k has
\* returned a value whose negation is at least beta
null_cutoff_pending(k) ==
    /\ w_pc[k] = "search"
    /\ stack[k] # << >>
    /\ top(k).stage = "null"
    /\ ret[k] # << >>
    /\ -ret[k][1] >= top(k).beta

\* C22: the null move is tried exactly at the nodes of depth >= 3 that are
\* not in check and whose turn swap the provider accepts, at depth - 3
\* with window (-beta, -beta + 1); a node whose swap is refused goes on to
\* its move loop; when the negated result is >= beta the call returns beta
\* and leaves the table as the null-move search left it.
C22_NullMove ==
    /\ [](\A k \in Workers : \A n \in 1 .. Len(stack[k]) :
             stack[k][n].stage = "null" => null_search_as_specified(k, n))
    /\ [][\A k \in Workers :
             /\ (enters_node(k) /\ stack'[k] # stack[k]) =>
                    LET f == top(k)
                        g == stack'[k][Len(stack[k])]
                    IN  IF /\ f.depth >= 3
                           /\ ~checkers_any(f.position)
                           /\ swap_turn(f.position) # NoPos
                        THEN g.stage = "null"
                        ELSE /\ g.stage = "loop"
                             /\ stack'[k][Len(stack'[k])].depth = f.depth - 1
             /\ (null_cutoff_pending(k) /\ stack'[k] # stack[k]) =>
                    /\ stack'[k] = below(k)
                    /\ ret'[k] = << top(k).beta >>
                    /\ transposition_table'[k] = transposition_table[k]]_vars

\* a null-move search entered with a finite beta has returned and cuts
\* the node off
C22_Witness ==
    \E k \in Workers :
        /\ null_cutoff_pending(k)
        /\ top(k).beta < POSITIVE_INFINITY

\* a node of depth >= 3 that is not in check and whose turn swap is
\* refused is in its move loop
C22_WitnessRefused ==
    \E k \in Workers : \E n \in 1 .. Len(stack[k]) :
        /\ stack[k][n].stage = "loop"
        /\ stack[k][n].depth >= 3
        /\ ~checkers_any(stack[k][n].position)
        /\ swap_turn(stack[k][n].position) = NoPos

\* the key the captures are to be ordered by
mvv_lva_key(m) ==
    10 * get_piece_base_score(m.cap) - get_piece_base_score(m.role)

\* C23: the captures quiesce examines are in descending order of
\* 10 * base_value(captured) - base_value(capturing): of two captures with
\* different keys the one with the larger key comes first.
C23_CapturesByMvvLva ==
    \A n \in 1 .. Len(q_stack) :
        q_stack[n].stage = "loop" =>
            \A a, b \in 1 .. Len(q_stack[n].capture_moves) :
                a < b => mvv_lva_key(q_stack[n].capture_moves[a])
                         >= mvv_lva_key(q_stack[n].capture_moves[b])

\* the score the moves are to be ordered by
order_score(m, preferred) ==
    (IF preferred # NoMove /\ m = preferred THEN 10000 ELSE 0)
    + (IF m.cap # NoRole THEN 10 * get_piece_base_score(m.cap) ELSE 0)
    + (IF m.promo # NoRole THEN get_piece_base_score(m.promo) ELSE 0)
    - (IF m.hang THEN get_piece_base_score(m.role) ELSE 0)

\* moves holds the legal moves of position p, each once, in descending
\* order of order_score
ordered_legal_moves(moves, p, preferred) ==
    /\ Len(moves) = Len(legal_moves(p))
    /\ \A j \in 1 .. Len(moves) :
           \E i \in 1 .. Len(moves) : moves[i] = legal_moves(p)[j]
    /\ \A a, b \in 1 .. Len(moves) :
           a < b => order_score(moves[a], preferred)
                    >= order_score(moves[b], preferred)

\* C24: the move loops of negamax and of next_move go through the legal
\* moves in descending order of order_score, the preferred move being the
\* hint of the table in negamax and the best move of the iteration before
\* in next_move (none in the first iteration).
C24_MovesByOrderScore ==
    \A k \in Workers :
        /\ \A n \in 1 .. Len(stack[k]) :
               stack[k][n].stage = "loop" =>
                   ordered_legal_moves(stack[k][n].legal_moves,
                                       stack[k][n].position,
                                       stack[k][n].best_cached_move)
        /\ w_pc[k] \in {"root_loop", "search", "root_exit"} =>
               /\ ordered_legal_moves(root[k].legal_moves,
                                      position_to_search[k],
                                      last_best_move[k])
               /\ last_best_move[k] =
                      IF target_depth[k] = 1 THEN NoMove ELSE best_move[k]

\* a move loop of negamax goes through a list the sort has reordered: a
\* capture generated last stands first, and the root has its preferred
\* move first though it was not generated first
C24_Witness ==
    \E k \in Workers :
        /\ w_pc[k] = "search"
        /\ last_best_move[k] # NoMove
        /\ root[k].legal_moves[1] = last_best_move[k]
        /\ legal_moves(position_to_search[k])[1] # last_best_move[k]
        /\ \E n \in 1 .. Len(stack[k]) :
               /\ stack[k][n].stage = "loop"
               /\ stack[k][n].legal_moves # legal_moves(stack[k][n].position)
               /\ stack[k][n].legal_moves[1].cap # NoRole

\* C25: at most one search worker is running at any time: a go is
\* accepted only when no worker of an earlier go is still running.
C25_OneWorkerRunning ==
    Cardinality({k \in Workers : running(k)}) <= 1

\* C26: the flag is cleared only by a stop command or by the timer of the
\* go that set it, never by the timer of an earlier go.
C26_OwnTimerOnly ==
    [][(is_thinking /\ ~is_thinking') =>
           \A k \in Workers :
               timer'[k] # timer[k] => k = thinking_thread]_vars

\* C27: a search works on the position that was current when its go was
\* accepted: the worker's position is the stored position at that moment
\* and never changes afterwards, a step that changes the stored position
\* (position, ucinewgame) changes nothing of any worker, and every bestmove
\* printed is a legal move of the position taken at go time.
C27_SearchesSnapshot ==
    /\ [](\A k \in Workers :
             \A i \in 1 .. Len(out[k]) :
                 out[k][i] \in Range(legal_moves(position_to_search[k])))
    /\ [][/\ \A k \in Workers :
                /\ (~started(k) /\ started(k)') =>
                       position_to_search'[k] = pos
                /\ started(k) =>
                       position_to_search'[k] = position_to_search[k]
          /\ pos' # pos => UNCHANGED WorkerVars]_vars

\* C27, its case: a worker printed bestmove for the position of its go
\* although the stored position was changed while it was searching
C27_Witness ==
    \E k \in Workers :
        /\ w_pc[k] = "done"
        /\ Len(out[k]) = 1
        /\ pos # position_to_search[k]
        /\ thinking_thread = k
        /\ out[k][1] \in Range(legal_moves(position_to_search[k]))
        /\ out[k][1] \notin Range(legal_moves(pos))

\* a window that is not empty and lies inside -INF .. +INF
window_ok(alpha, beta) ==
    /\ NEGATIVE_INFINITY <= alpha
    /\ alpha < beta
    /\ beta <= POSITIVE_INFINITY

\* the call of negamax about to be entered by worker k calls quiesce
calls_quiesce(k) ==
    /\ w_pc[k] = "search"
    /\ stack[k] # << >>
    /\ top(k).stage = "call"
    /\ probe_of(k).kind # "Some"
    /\ at_horizon(top(k), is_thinking)

\* C28: in a search started by next_move, the window of the root, of every
\* call of negamax (as it was called and as its move loop has raised it)
\* and of every call of quiesce satisfies -INF <= alpha < beta <= +INF, so
\* no window is empty and no negation of a bound leaves -INF .. +INF.
C28_WindowsOpen ==
    \A k \in Workers :
        /\ w_pc[k] \in {"root_loop", "search"} =>
               window_ok(root[k].alpha, POSITIVE_INFINITY)
        /\ \A n \in 1 .. Len(stack[k]) :
               /\ window_ok(stack[k][n].alpha0, stack[k][n].beta)
               /\ window_ok(stack[k][n].alpha, stack[k][n].beta)
        /\ calls_quiesce(k) =>
               \A w \in quiesce_calls(top(k).position, top(k).alpha,
                                      top(k).beta) :
                   window_ok(w[1], w[2])

\* C28, its case: the search of a null move under a node whose beta is
\* +INF, called with the window (-INF, -INF + 1), reaches the horizon and
\* calls quiesce
C28_Witness ==
    \E k \in Workers :
        /\ calls_quiesce(k)
        /\ Len(stack[k]) >= 2
        /\ stack[k][Len(stack[k]) - 1].stage = "null"
        /\ stack[k][Len(stack[k]) - 1].beta = POSITIVE_INFINITY
        /\ top(k).alpha = NEGATIVE_INFINITY
        /\ top(k).beta = NEGATIVE_INFINITY + 1

\* C28, its case: quiesce is called with a narrowed window and calls itself
C28_WitnessQuiesce ==
    \E k \in Workers :
        /\ calls_quiesce(k)
        /\ top(k).alpha > NEGATIVE_INFINITY
        /\ top(k).beta < POSITIVE_INFINITY
        /\ Cardinality(quiesce_calls(top(k).position, top(k).alpha,
                                     top(k).beta)) > 1
====
